---- MODULE Spec2Model ----
(***************************************************************************)
(* REST+Json codec of wsme (src/wsme/protocols/restjson.py): the two       *)
(* generic functions tojson and fromjson, their registered methods, and    *)
(* the registration of further methods with when_object.                   *)
(*                                                                         *)
(* Values (native and wire) are tagged records:                            *)
(*   [k |-> "none"]                       None                             *)
(*   [k |-> "int",  i |-> n]              an integer                       *)
(*   [k |-> "bool", b |-> TRUE]           a boolean                        *)
(*   [k |-> "str",  s |-> <<"a","b">>]    a string, one character a cell   *)
(*   [k |-> "list", items |-> <<v, w>>]   a list                           *)
(*   [k |-> "dict", m |-> [x |-> v]]      a mapping with string keys       *)
(*   [k |-> "obj",  cls |-> T, attrs |-> f]  an instance of complex type T *)
(*                                        with the attributes set so far   *)
(*   [k |-> "Decimal", neg, digits, exp]  decimal.Decimal                  *)
(*   [k |-> "date", y, mo, dd]            datetime.date                    *)
(*   [k |-> "time", h, mi, sec, us]       datetime.time (naive)            *)
(*   [k |-> "datetime", y, mo, dd, h, mi, sec, us]  datetime.datetime      *)
(*   [k |-> "bytes", b |-> <<104, 105>>]  a byte string (wsme.types.binary)*)
(*   [k |-> "custom", by |-> f, on |-> v] what a user-registered method f  *)
(*                                        returns when called with v       *)
(*   [k |-> "err", e |-> "TypeError"]     a raised exception               *)
(***************************************************************************)
EXTENDS Integers, Sequences, FiniteSets, TLC

VARIABLES tojson_by_object, fromjson_by_object, pc, op, dt, arg, method, ret, src

vars == <<tojson_by_object, fromjson_by_object, pc, op, dt, arg, method, ret, src>>

(***************************************************************************)
(* Bounds                                                                  *)
(***************************************************************************)
MaxLen == 3      \* longest array given to a call
MaxBytes == 3    \* longest byte string given to tojson
MaxB64 == 4      \* longest base64 text given to fromjson

(***************************************************************************)
(* Value constructors                                                      *)
(***************************************************************************)
None == [k |-> "none"]
IntV(n) == [k |-> "int", i |-> n]
BoolV(b) == [k |-> "bool", b |-> b]
Str(s) == [k |-> "str", s |-> s]
List(items) == [k |-> "list", items |-> items]
Dict(m) == [k |-> "dict", m |-> m]
Obj(cls, attrs) == [k |-> "obj", cls |-> cls, attrs |-> attrs]
Err(e) == [k |-> "err", e |-> e]
Custom(f, v) == [k |-> "custom", by |-> f, on |-> v]
DecimalV(neg, digits, exp) == [k |-> "Decimal", neg |-> neg, digits |-> digits, exp |-> exp]
DateV(y, mo, dd) == [k |-> "date", y |-> y, mo |-> mo, dd |-> dd]
TimeV(h, mi, sec, us) == [k |-> "time", h |-> h, mi |-> mi, sec |-> sec, us |-> us]
DatetimeV(y, mo, dd, h, mi, sec, us) ==
    [k |-> "datetime", y |-> y, mo |-> mo, dd |-> dd, h |-> h, mi |-> mi, sec |-> sec, us |-> us]
Bytes(b) == [k |-> "bytes", b |-> b]

IsErr(v) == v.k = "err"

(***************************************************************************)
(* The type-descriptor model the codec consumes (wsme.types): the          *)
(* descriptors of the model, which of them are complex, and the attributes *)
(* of the complex ones.  An array descriptor is a one-element list         *)
(* [elementtype]; ArrayElem is its datatype[0].                            *)
(***************************************************************************)
Primitives == {"int"}
Scalars == {"Decimal", "date", "time", "datetime", "binary"}
ArrayTypes == {"IntArray", "DateArray", "PointArray"}
ComplexTypes == {"Point", "Event"}
Descriptors == Primitives \cup Scalars \cup ArrayTypes \cup ComplexTypes

ArrayElem(datatype) ==
    CASE datatype = "IntArray" -> "int"
      [] datatype = "DateArray" -> "date"
      [] datatype = "PointArray" -> "Point"

iscomplex(datatype) == datatype \in ComplexTypes

list_attributes(datatype) ==
    CASE datatype = "Point" ->
           << [name |-> "x", datatype |-> "Decimal"],
              [name |-> "y", datatype |-> "Decimal"] >>
      [] datatype = "Event" ->
           << [name |-> "when", datatype |-> "time"],
              [name |-> "at", datatype |-> "Point"],
              [name |-> "tags", datatype |-> "IntArray"] >>

AttrNames(datatype) ==
    {list_attributes(datatype)[n].name : n \in 1..Len(list_attributes(datatype))}

(***************************************************************************)
(* Strings                                                                 *)
(***************************************************************************)
Digits == <<"0", "1", "2", "3", "4", "5", "6", "7", "8", "9">>
DigitChars == {Digits[n] : n \in 1..10}
DigitChar(n) == Digits[n + 1]
DigitVal(c) == CHOOSE n \in 0..9 : Digits[n + 1] = c

RECURSIVE Repeat(_, _)
Repeat(c, n) == IF n <= 0 THEN <<>> ELSE <<c>> \o Repeat(c, n - 1)

RECURSIVE NatStr(_)
NatStr(n) == IF n < 10 THEN <<DigitChar(n)>> ELSE NatStr(n \div 10) \o <<DigitChar(n % 10)>>

\* "%0<w>d" % n
ZeroPad(n, w) == Repeat("0", w - Len(NatStr(n))) \o NatStr(n)

RECURSIVE DigitsStr(_)
DigitsStr(ds) == IF ds = <<>> THEN <<>> ELSE <<DigitChar(Head(ds))>> \o DigitsStr(Tail(ds))

\* int(s) of a string of digits, a leading space allowed as int() allows it
RECURSIVE StrNat(_)
StrNat(s) ==
    IF s = <<>> THEN 0
    ELSE IF s[Len(s)] = " " THEN 0
    ELSE 10 * StrNat(SubSeq(s, 1, Len(s) - 1)) + DigitVal(s[Len(s)])

(***************************************************************************)
(* The two generic functions.  simplegeneric's generic(func) keeps a table *)
(* of methods by object identity and a table by type; a call looks the     *)
(* first argument up by identity, then walks the __mro__ of its type, and  *)
(* the decorated function itself is the method of type object.             *)
(***************************************************************************)
\* type(datatype).__mro__: an array descriptor is a list instance, every
\* other descriptor is a class
TypeMro(datatype) ==
    IF datatype \in ArrayTypes THEN <<"list", "object">> ELSE <<"type", "object">>

\* the methods registered with when_type, and the decorated function
tojson_by_type == [t \in {"list", "object"} |->
                     IF t = "list" THEN "array_tojson" ELSE "tojson_func"]
fromjson_by_type == [t \in {"list", "object"} |->
                       IF t = "list" THEN "array_fromjson" ELSE "fromjson_func"]

\* the methods registered with when_object when the module is imported
BuiltinToJson ==
    [o \in Scalars |->
       CASE o = "Decimal" -> "decimal_tojson"
         [] o = "date" -> "date_tojson"
         [] o = "time" -> "time_tojson"
         [] o = "datetime" -> "datetime_tojson"
         [] o = "binary" -> "binary_tojson"]
BuiltinFromJson ==
    [o \in Scalars |->
       CASE o = "Decimal" -> "decimal_fromjson"
         [] o = "date" -> "date_fromjson"
         [] o = "time" -> "time_fromjson"
         [] o = "datetime" -> "datetime_fromjson"
         [] o = "binary" -> "binary_fromjson"]

\* the first type of the mro that has a method
ByTypeMethod(by_type, mro) ==
    by_type[mro[CHOOSE n \in 1..Len(mro) :
                  /\ mro[n] \in DOMAIN by_type
                  /\ \A j \in 1..(n - 1) : mro[j] \notin DOMAIN by_type]]

\* simplegeneric's dispatch: the method called for a first argument
Dispatch(by_object, by_type, datatype) ==
    IF datatype \in DOMAIN by_object
    THEN by_object[datatype]
    ELSE ByTypeMethod(by_type, TypeMro(datatype))

\* the first exception of a sequence of results, in evaluation order
HasErr(rs) == \E n \in 1..Len(rs) : IsErr(rs[n])
FirstErr(rs) == rs[CHOOSE n \in 1..Len(rs) :
                     IsErr(rs[n]) /\ \A j \in 1..(n - 1) : ~IsErr(rs[j])]

(***************************************************************************)
(* Encoding                                                                *)
(***************************************************************************)
\* str(value) of a Decimal whose exponent is at most 0 and whose adjusted
\* exponent is above -6 (no scientific notation)
DecimalStr(value) ==
    LET ds == DigitsStr(value.digits)
        dotplace == value.exp + Len(ds)
        intpart == IF dotplace <= 0 THEN <<"0">> ELSE SubSeq(ds, 1, dotplace)
        fracpart == IF dotplace <= 0 THEN <<".">> \o Repeat("0", 0 - dotplace) \o ds
                    ELSE IF dotplace >= Len(ds) THEN <<>>
                    ELSE <<".">> \o SubSeq(ds, dotplace + 1, Len(ds))
    IN (IF value.neg THEN <<"-">> ELSE <<>>) \o intpart \o fracpart

decimal_tojson(datatype, value) == Str(DecimalStr(value))

\* date.isoformat()
DateIso(value) ==
    ZeroPad(value.y, 4) \o <<"-">> \o ZeroPad(value.mo, 2) \o <<"-">> \o ZeroPad(value.dd, 2)

\* time.isoformat() of a naive time: the microseconds follow when not zero
TimeIso(value) ==
    ZeroPad(value.h, 2) \o <<":">> \o ZeroPad(value.mi, 2) \o <<":">> \o ZeroPad(value.sec, 2)
      \o (IF value.us # 0 THEN <<".">> \o ZeroPad(value.us, 6) ELSE <<>>)

date_tojson(datatype, value) == Str(DateIso(value))

time_tojson(datatype, value) == Str(TimeIso(value))

\* datetime.isoformat(): date, "T", time
datetime_tojson(datatype, value) == Str(DateIso(value) \o <<"T">> \o TimeIso(value))

B64Alphabet ==
    << "A", "B", "C", "D", "E", "F", "G", "H", "I", "J", "K", "L", "M",
       "N", "O", "P", "Q", "R", "S", "T", "U", "V", "W", "X", "Y", "Z",
       "a", "b", "c", "d", "e", "f", "g", "h", "i", "j", "k", "l", "m",
       "n", "o", "p", "q", "r", "s", "t", "u", "v", "w", "x", "y", "z",
       "0", "1", "2", "3", "4", "5", "6", "7", "8", "9", "+", "/" >>

\* binascii.b2a_base64 without its trailing newline
RECURSIVE B64Encode(_)
B64Encode(b) ==
    IF Len(b) = 0 THEN <<>>
    ELSE IF Len(b) = 1 THEN
        << B64Alphabet[(b[1] \div 4) + 1], B64Alphabet[((b[1] % 4) * 16) + 1], "=", "=" >>
    ELSE IF Len(b) = 2 THEN
        << B64Alphabet[(b[1] \div 4) + 1],
           B64Alphabet[((b[1] % 4) * 16 + (b[2] \div 16)) + 1],
           B64Alphabet[((b[2] % 16) * 4) + 1], "=" >>
    ELSE
        << B64Alphabet[(b[1] \div 4) + 1],
           B64Alphabet[((b[1] % 4) * 16 + (b[2] \div 16)) + 1],
           B64Alphabet[((b[2] % 16) * 4 + (b[3] \div 64)) + 1],
           B64Alphabet[(b[3] % 64) + 1] >> \o B64Encode(SubSeq(b, 4, Len(b)))

\* base64.encodestring: each piece of 57 bytes becomes a line
RECURSIVE EncodeString(_)
EncodeString(b) ==
    IF Len(b) = 0 THEN <<>>
    ELSE IF Len(b) <= 57 THEN B64Encode(b) \o <<"\n">>
    ELSE B64Encode(SubSeq(b, 1, 57)) \o <<"\n">> \o EncodeString(SubSeq(b, 58, Len(b)))

binary_tojson(datatype, value) == Str(EncodeString(value.b))

\* a method registered by the application: what it returns records the call
custom_tojson(f, datatype, value) == Custom(f, value)

RECURSIVE tojson(_, _, _)

\* tojson_func, were the branch of the complex types missing
tojson_func_NoComplex(by_object, datatype, value) == value

\* tojson_func, were the attributes copied without conversion
tojson_func_RawAttributes(by_object, datatype, value) ==
    IF iscomplex(datatype)
    THEN Dict([name \in AttrNames(datatype) |-> value.attrs[name]])
    ELSE value

\* the decorated function: the method of type object
tojson_func(by_object, datatype, value) ==
    IF iscomplex(datatype)
    THEN LET attrs == list_attributes(datatype)
             rs == [n \in 1..Len(attrs) |->
                      tojson(by_object, attrs[n].datatype, value.attrs[attrs[n].name])]
         IN IF HasErr(rs) THEN FirstErr(rs)
            ELSE Dict([name \in AttrNames(datatype) |->
                         rs[CHOOSE n \in 1..Len(attrs) : attrs[n].name = name]])
    ELSE value

array_tojson(by_object, datatype, value) ==
    LET rs == [n \in 1..Len(value.items) |->
                 tojson(by_object, ArrayElem(datatype), value.items[n])]
    IN IF HasErr(rs) THEN FirstErr(rs) ELSE List(rs)

\* the call of a method by its name
CallToJson(f, by_object, datatype, value) ==
    CASE f = "tojson_func" -> tojson_func(by_object, datatype, value)
      [] f = "array_tojson" -> array_tojson(by_object, datatype, value)
      [] f = "decimal_tojson" -> decimal_tojson(datatype, value)
      [] f = "date_tojson" -> date_tojson(datatype, value)
      [] f = "time_tojson" -> time_tojson(datatype, value)
      [] f = "datetime_tojson" -> datetime_tojson(datatype, value)
      [] f = "binary_tojson" -> binary_tojson(datatype, value)
      [] OTHER -> custom_tojson(f, datatype, value)

tojson(by_object, datatype, value) ==
    CallToJson(Dispatch(by_object, tojson_by_type, datatype), by_object, datatype, value)

(***************************************************************************)
(* Decoding: the scalar parsers                                            *)
(***************************************************************************)
Whitespace == {" ", "\n"}

RECURSIVE LStrip(_)
LStrip(s) == IF s # <<>> /\ Head(s) \in Whitespace THEN LStrip(Tail(s)) ELSE s

RECURSIVE RStrip(_)
RStrip(s) ==
    IF s # <<>> /\ s[Len(s)] \in Whitespace THEN RStrip(SubSeq(s, 1, Len(s) - 1)) ELSE s

AllDigits(s) == \A n \in 1..Len(s) : s[n] \in DigitChars

\* str(int(s)) as a sequence of digits: the leading zeros go
RECURSIVE NatDigits(_)
NatDigits(s) ==
    IF Len(s) > 1 /\ Head(s) = "0" THEN NatDigits(Tail(s))
    ELSE IF s = <<>> THEN <<0>>
    ELSE [n \in 1..Len(s) |-> DigitVal(s[n])]

\* decimal.Decimal(value): a string is stripped and parsed as
\* [sign] digits [. digits], with a digit required; an int converts; any
\* other value is a TypeError.  Exponents, Inf and NaN are not modelled:
\* no input of the model spells them.
DecimalParse(value) ==
    IF value.k = "int" THEN
        DecimalV(value.i < 0, NatDigits(NatStr(IF value.i < 0 THEN 0 - value.i ELSE value.i)), 0)
    ELSE IF value.k = "bool" THEN
        DecimalV(FALSE, IF value.b THEN <<1>> ELSE <<0>>, 0)
    ELSE IF value.k # "str" THEN Err("TypeError")
    ELSE
        LET s == RStrip(LStrip(value.s))
            signed == s # <<>> /\ Head(s) \in {"-", "+"}
            body == IF signed THEN Tail(s) ELSE s
            dots == {n \in 1..Len(body) : body[n] = "."}
            dot == IF dots = {} THEN Len(body) + 1 ELSE CHOOSE n \in dots : \A j \in dots : n <= j
            intpart == SubSeq(body, 1, dot - 1)
            fracpart == SubSeq(body, dot + 1, Len(body))
        IN IF /\ AllDigits(intpart)
              /\ AllDigits(fracpart)
              /\ Len(intpart) + Len(fracpart) > 0
           THEN DecimalV(signed /\ Head(s) = "-", NatDigits(intpart \o fracpart), 0 - Len(fracpart))
           ELSE Err("InvalidOperation")

\* _strptime's regular expression of a directive, as the alternatives in
\* the order the engine tries them; an alternative is a sequence of
\* character classes.  Any other character of a format matches itself,
\* whatever its case (the expression is compiled with IGNORECASE).
D09 == DigitChars
D19 == DigitChars \ {"0"}
DirectiveRegex(tok) ==
    CASE tok = "%Y" -> << <<D09, D09, D09, D09>> >>
      [] tok = "%m" -> << <<{"1"}, {"0", "1", "2"}>>, <<{"0"}, D19>>, <<D19>> >>
      [] tok = "%d" -> << <<{"3"}, {"0", "1"}>>, <<{"1", "2"}, D09>>, <<{"0"}, D19>>,
                          <<D19>>, <<{" "}, D19>> >>
      [] tok = "%H" -> << <<{"2"}, {"0", "1", "2", "3"}>>, <<{"0", "1"}, D09>>, <<D09>> >>
      [] tok = "%M" -> << <<{"0", "1", "2", "3", "4", "5"}, D09>>, <<D09>> >>
      [] tok = "%S" -> << <<{"6"}, {"0", "1"}>>, <<{"0", "1", "2", "3", "4", "5"}, D09>>,
                          <<D09>> >>
      [] tok = "T" -> << <<{"T", "t"}>> >>
      [] OTHER -> << <<{tok}>> >>

AltMatches(s, pos, alt) ==
    /\ pos + Len(alt) - 1 <= Len(s)
    /\ \A j \in 1..Len(alt) : s[pos + j - 1] \in alt[j]

\* re.match of the format's expression at pos: the first alternative of
\* token ti, from alternative ai on, that lets the rest of the format match
RECURSIVE ReMatch(_, _, _, _, _)
ReMatch(s, pos, fmt, ti, ai) ==
    IF ti > Len(fmt) THEN [ok |-> TRUE, end |-> pos, groups |-> <<>>]
    ELSE LET alts == DirectiveRegex(fmt[ti])
         IN IF ai > Len(alts) THEN [ok |-> FALSE, end |-> pos, groups |-> <<>>]
            ELSE IF AltMatches(s, pos, alts[ai])
            THEN LET rest == ReMatch(s, pos + Len(alts[ai]), fmt, ti + 1, 1)
                 IN IF rest.ok
                    THEN [ok |-> TRUE, end |-> rest.end,
                          groups |-> <<SubSeq(s, pos, pos + Len(alts[ai]) - 1)>> \o rest.groups]
                    ELSE ReMatch(s, pos, fmt, ti, ai + 1)
            ELSE ReMatch(s, pos, fmt, ti, ai + 1)

IsLeap(y) == y % 4 = 0 /\ (y % 100 # 0 \/ y % 400 = 0)
DaysInMonth(y, mo) ==
    IF mo = 2 THEN (IF IsLeap(y) THEN 29 ELSE 28)
    ELSE IF mo \in {4, 6, 9, 11} THEN 30 ELSE 31

\* strptime, were the text after the match of the format ignored
strptime_Truncating(value, fmt) ==
    IF value.k # "str" THEN Err("TypeError")
    ELSE LET found == ReMatch(value.s, 1, fmt, 1, 1)
             Field(tok, default) ==
                 IF \E n \in 1..Len(fmt) : fmt[n] = tok
                 THEN StrNat(found.groups[CHOOSE n \in 1..Len(fmt) : fmt[n] = tok])
                 ELSE default
         IN IF ~found.ok THEN Err("ValueError")
            ELSE IF \/ Field("%Y", 1900) < 1
                    \/ Field("%d", 1) > DaysInMonth(Field("%Y", 1900), Field("%m", 1))
                    \/ Field("%S", 0) > 59
            THEN Err("ValueError")
            ELSE DatetimeV(Field("%Y", 1900), Field("%m", 1), Field("%d", 1),
                           Field("%H", 0), Field("%M", 0), Field("%S", 0), 0)

\* datetime.datetime.strptime(value, format): the whole string has to
\* match, and the fields have to make a datetime
strptime(value, fmt) ==
    IF value.k # "str" THEN Err("TypeError")
    ELSE LET found == ReMatch(value.s, 1, fmt, 1, 1)
             Field(tok, default) ==
                 IF \E n \in 1..Len(fmt) : fmt[n] = tok
                 THEN StrNat(found.groups[CHOOSE n \in 1..Len(fmt) : fmt[n] = tok])
                 ELSE default
             year == Field("%Y", 1900)
             month == Field("%m", 1)
             day == Field("%d", 1)
             hour == Field("%H", 0)
             minute == Field("%M", 0)
             second == Field("%S", 0)
         IN IF ~found.ok THEN Err("ValueError")
            ELSE IF found.end # Len(value.s) + 1 THEN Err("ValueError")
            ELSE IF year < 1 \/ day > DaysInMonth(year, month) \/ second > 59
            THEN Err("ValueError")
            ELSE DatetimeV(year, month, day, hour, minute, second, 0)

DateFormat == <<"%Y", "-", "%m", "-", "%d">>
TimeFormat == <<"%H", ":", "%M", ":", "%S">>
DatetimeFormat == <<"%Y", "-", "%m", "-", "%d", "T", "%H", ":", "%M", ":", "%S">>

decimal_fromjson(datatype, value) == DecimalParse(value)

date_fromjson(datatype, value) ==
    LET r == strptime(value, DateFormat)
    IN IF IsErr(r) THEN r ELSE DateV(r.y, r.mo, r.dd)

time_fromjson(datatype, value) ==
    LET r == strptime(value, TimeFormat)
    IN IF IsErr(r) THEN r ELSE TimeV(r.h, r.mi, r.sec, r.us)

datetime_fromjson(datatype, value) == strptime(value, DatetimeFormat)

B64Chars == {B64Alphabet[n] : n \in 1..64}
B64Val(c) == CHOOSE n \in 0..63 : B64Alphabet[n + 1] = c

Pow2(n) == CASE n = 0 -> 1 [] n = 2 -> 4 [] n = 4 -> 16 [] n = 6 -> 64

\* binascii_find_valid: the (num+1)th character from position n on that is
\* a base64 character or the pad, "" when there is none
RECURSIVE FindValid(_, _, _)
FindValid(s, n, num) ==
    IF n > Len(s) THEN ""
    ELSE IF s[n] \in B64Chars \cup {"="}
    THEN (IF num = 0 THEN s[n] ELSE FindValid(s, n + 1, num - 1))
    ELSE FindValid(s, n + 1, num)

\* binascii.a2b_base64: white space and foreign characters are skipped, a
\* pad in the third or fourth place of a quad ends the input, and bits left
\* over at the end are an error
RECURSIVE A2BBase64(_, _, _, _, _, _)
A2BBase64(s, n, quad_pos, leftchar, leftbits, out) ==
    IF n > Len(s)
    THEN (IF leftbits # 0 THEN Err("binascii.Error") ELSE Bytes(out))
    ELSE IF s[n] = "="
    THEN (IF quad_pos < 2 \/ (quad_pos = 2 /\ FindValid(s, n, 1) # "=")
          THEN A2BBase64(s, n + 1, quad_pos, leftchar, leftbits, out)
          ELSE Bytes(out))
    ELSE IF s[n] \notin B64Chars
    THEN A2BBase64(s, n + 1, quad_pos, leftchar, leftbits, out)
    ELSE LET shifted == leftchar * 64 + B64Val(s[n])
             bits == leftbits + 6
         IN IF bits >= 8
            THEN A2BBase64(s, n + 1, (quad_pos + 1) % 4, shifted % Pow2(bits - 8), bits - 8,
                           Append(out, (shifted \div Pow2(bits - 8)) % 256))
            ELSE A2BBase64(s, n + 1, (quad_pos + 1) % 4, shifted, bits, out)

\* base64.decodestring
DecodeString(value) ==
    IF value.k # "str" THEN Err("TypeError") ELSE A2BBase64(value.s, 1, 0, 0, 0, <<>>)

binary_fromjson(datatype, value) == DecodeString(value)

\* a method registered by the application: what it returns records the call
custom_fromjson(f, datatype, value) == Custom(f, value)

(***************************************************************************)
(* Decoding: the generic function                                          *)
(***************************************************************************)
\* the characters of the attribute names and mapping keys of the model
NameChars(name) ==
    CASE name = "x" -> <<"x">>
      [] name = "y" -> <<"y">>
      [] name = "z" -> <<"z">>
      [] name = "at" -> <<"a", "t">>
      [] name = "when" -> <<"w", "h", "e", "n">>
      [] name = "tags" -> <<"t", "a", "g", "s">>

\* the order in which the keys of a mapping are iterated
KeyOrder == <<"x", "y", "z", "at", "when", "tags">>

RECURSIVE KeysInOrder(_, _)
KeysInOrder(m, n) ==
    IF n > Len(KeyOrder) THEN <<>>
    ELSE (IF KeyOrder[n] \in DOMAIN m THEN <<Str(NameChars(KeyOrder[n]))>> ELSE <<>>)
           \o KeysInOrder(m, n + 1)

\* sub in s, of two strings
Contains(s, sub) ==
    \E n \in 1..(Len(s) - Len(sub) + 1) : SubSeq(s, n, n + Len(sub) - 1) = sub

\* name in value: "yes", "no", or the TypeError of a value that has no
\* membership test
NameIn(name, value) ==
    CASE value.k = "dict" -> IF name \in DOMAIN value.m THEN "yes" ELSE "no"
      [] value.k = "str" -> IF Contains(value.s, NameChars(name)) THEN "yes" ELSE "no"
      [] value.k = "list" ->
           IF \E n \in 1..Len(value.items) : value.items[n] = Str(NameChars(name))
           THEN "yes" ELSE "no"
      [] OTHER -> "TypeError"

\* for item in value: the items, or the TypeError of a value that cannot be
\* iterated
Iterate(value) ==
    CASE value.k = "list" -> List(value.items)
      [] value.k = "str" -> List([n \in 1..Len(value.s) |-> Str(<<value.s[n]>>)])
      [] value.k = "dict" -> List(KeysInOrder(value.m, 1))
      [] OTHER -> Err("TypeError")

Absent == [k |-> "absent"]

RECURSIVE fromjson(_, _, _)

\* fromjson_func, were the attributes missing from the mapping set to None
fromjson_func_DefaultsNone(by_object, datatype, value) ==
    IF value = None THEN None
    ELSE IF iscomplex(datatype)
    THEN LET attrs == list_attributes(datatype)
             rs == [n \in 1..Len(attrs) |->
                      LET isin == NameIn(attrs[n].name, value)
                      IN IF isin = "TypeError" THEN Err("TypeError")
                         ELSE IF isin = "no" THEN None
                         ELSE IF value.k # "dict" THEN Err("TypeError")
                         ELSE fromjson(by_object, attrs[n].datatype, value.m[attrs[n].name])]
         IN IF HasErr(rs) THEN FirstErr(rs)
            ELSE Obj(datatype, [name \in AttrNames(datatype) |->
                                  rs[CHOOSE n \in 1..Len(attrs) : attrs[n].name = name]])
    ELSE value

\* the items of a sequence that are not exceptions, in order
RECURSIVE WithoutErrs(_)
WithoutErrs(rs) ==
    IF rs = <<>> THEN <<>>
    ELSE (IF IsErr(Head(rs)) THEN <<>> ELSE <<Head(rs)>>) \o WithoutErrs(Tail(rs))

\* array_fromjson, were an element that fails to decode left out
array_fromjson_SkipFailed(by_object, datatype, value) ==
    LET it == Iterate(value)
    IN IF IsErr(it) THEN it
       ELSE List(WithoutErrs([n \in 1..Len(it.items) |->
                                fromjson(by_object, ArrayElem(datatype), it.items[n])]))

\* the items of a sequence that are not None, in order
RECURSIVE WithoutNone(_)
WithoutNone(s) ==
    IF s = <<>> THEN <<>>
    ELSE (IF Head(s) = None THEN <<>> ELSE <<Head(s)>>) \o WithoutNone(Tail(s))

\* array_fromjson, were the null elements left out
array_fromjson_DropNull(by_object, datatype, value) ==
    LET it == Iterate(value)
    IN IF IsErr(it) THEN it
       ELSE LET items == WithoutNone(it.items)
                rs == [n \in 1..Len(items) |->
                         fromjson(by_object, ArrayElem(datatype), items[n])]
            IN IF HasErr(rs) THEN FirstErr(rs) ELSE List(rs)

\* the decorated function: the method of type object
fromjson_func(by_object, datatype, value) ==
    IF value = None THEN None
    ELSE IF iscomplex(datatype)
    THEN LET attrs == list_attributes(datatype)
             \* one turn of the loop: the attribute's value, Absent when the
             \* name is not in value, or the exception raised
             rs == [n \in 1..Len(attrs) |->
                      LET isin == NameIn(attrs[n].name, value)
                      IN IF isin = "TypeError" THEN Err("TypeError")
                         ELSE IF isin = "no" THEN Absent
                         ELSE IF value.k # "dict" THEN Err("TypeError")
                         ELSE fromjson(by_object, attrs[n].datatype, value.m[attrs[n].name])]
             present == {attrs[n].name : n \in {j \in 1..Len(attrs) : rs[j] # Absent}}
         IN IF HasErr(rs) THEN FirstErr(rs)
            ELSE Obj(datatype, [name \in present |->
                                  rs[CHOOSE n \in 1..Len(attrs) : attrs[n].name = name]])
    ELSE value

array_fromjson(by_object, datatype, value) ==
    LET it == Iterate(value)
    IN IF IsErr(it) THEN it
       ELSE LET rs == [n \in 1..Len(it.items) |->
                         fromjson(by_object, ArrayElem(datatype), it.items[n])]
            IN IF HasErr(rs) THEN FirstErr(rs) ELSE List(rs)

\* the call of a method by its name
CallFromJson(f, by_object, datatype, value) ==
    CASE f = "fromjson_func" -> fromjson_func(by_object, datatype, value)
      [] f = "array_fromjson" -> array_fromjson(by_object, datatype, value)
      [] f = "decimal_fromjson" -> decimal_fromjson(datatype, value)
      [] f = "date_fromjson" -> date_fromjson(datatype, value)
      [] f = "time_fromjson" -> time_fromjson(datatype, value)
      [] f = "datetime_fromjson" -> datetime_fromjson(datatype, value)
      [] f = "binary_fromjson" -> binary_fromjson(datatype, value)
      [] OTHER -> custom_fromjson(f, datatype, value)

fromjson(by_object, datatype, value) ==
    CallFromJson(Dispatch(by_object, fromjson_by_type, datatype), by_object, datatype, value)

(***************************************************************************)
(* The values given to the calls                                           *)
(***************************************************************************)
SeqsUpTo(S, n) == UNION {[1..m -> S] : m \in 0..n}

IntNatives == {IntV(1), IntV(2), IntV(3)}
DecimalNatives ==
    { DecimalV(FALSE, <<1, 5>>, -1), DecimalV(FALSE, <<2, 0>>, -1),
      DecimalV(TRUE, <<2, 5>>, -2), DecimalV(FALSE, <<7>>, 0) }
DateNatives == {DateV(2020, 1, 1), DateV(2020, 2, 29), DateV(999, 12, 31)}
TimeNatives == {TimeV(10, 0, 0, 0), TimeV(23, 59, 59, 0), TimeV(10, 0, 0, 123)}
DatetimeNatives ==
    { DatetimeV(2020, 1, 1, 10, 0, 0, 0), DatetimeV(999, 12, 31, 23, 59, 59, 0),
      DatetimeV(2020, 1, 1, 10, 0, 0, 123) }
BinaryNatives == {Bytes(b) : b \in SeqsUpTo({0, 104, 255}, MaxBytes)}
PointNatives ==
    {Obj("Point", [name \in {"x", "y"} |-> IF name = "x" THEN vx ELSE vy]) :
       vx \in DecimalNatives, vy \in DecimalNatives}
SomePoints ==
    { Obj("Point", [name \in {"x", "y"} |->
                      IF name = "x" THEN DecimalV(FALSE, <<1, 5>>, -1)
                      ELSE DecimalV(FALSE, <<2, 0>>, -1)]),
      Obj("Point", [name \in {"x", "y"} |-> DecimalV(FALSE, <<7>>, 0)]) }
IntArrayNatives == {List(s) : s \in SeqsUpTo(IntNatives, MaxLen)}
EventNatives ==
    {Obj("Event", [name \in {"when", "at", "tags"} |->
                     IF name = "when" THEN w ELSE IF name = "at" THEN p ELSE a]) :
       w \in TimeNatives, p \in SomePoints,
       a \in {List(<<>>), List(<<IntV(1), IntV(2)>>)}}

\* the well-formed native values of a descriptor
NativeValues(datatype) ==
    CASE datatype = "int" -> IntNatives
      [] datatype = "Decimal" -> DecimalNatives
      [] datatype = "date" -> DateNatives
      [] datatype = "time" -> TimeNatives
      [] datatype = "datetime" -> DatetimeNatives
      [] datatype = "binary" -> BinaryNatives
      [] datatype = "IntArray" -> IntArrayNatives
      [] datatype = "DateArray" -> {List(s) : s \in SeqsUpTo(DateNatives, MaxLen)}
      [] datatype = "PointArray" -> {List(s) : s \in SeqsUpTo(SomePoints, MaxLen)}
      [] datatype = "Point" -> PointNatives
      [] datatype = "Event" -> EventNatives

DateTexts ==
    {y \o <<"-">> \o mo \o <<"-">> \o dd \o sfx :
       y \in {<<"2", "0", "2", "0">>, <<"2", "0", "2", "1">>, <<"0", "0", "0", "0">>},
       mo \in {<<"0", "1">>, <<"2">>, <<"1", "3">>, <<"0", "2">>},
       dd \in {<<"0", "1">>, <<"5">>, <<" ", "5">>, <<"2", "9">>, <<"3", "1">>},
       sfx \in {<<>>, <<"1">>}}
TimeTexts ==
    {h \o <<":">> \o mi \o <<":">> \o sec \o sfx :
       h \in {<<"1", "0">>, <<"7">>, <<"2", "4">>},
       mi \in {<<"0", "0">>, <<"5">>, <<"6", "0">>},
       sec \in {<<"0", "0">>, <<"9">>, <<"6", "0">>},
       sfx \in {<<>>, <<".", "0", "0", "0", "1", "2", "3">>, <<"+", "0", "2", ":", "0", "0">>}}
DatetimeTexts ==
    {dd \o sep \o tt \o sfx :
       dd \in {<<"2", "0", "2", "0", "-", "0", "1", "-", "0", "1">>,
               <<"2", "0", "2", "0", "-", "1", "-", "5">>,
               <<"2", "0", "2", "0", "-", "1", "3", "-", "0", "1">>},
       sep \in {<<"T">>, <<"t">>, <<" ">>},
       tt \in {<<"1", "0", ":", "0", "0", ":", "0", "0">>, <<"1", ":", "2", ":", "3">>,
               <<"1", "0", ":", "0", "0">>},
       sfx \in {<<>>, <<".", "0", "0", "0", "1", "2", "3">>, <<"+", "0", "2", ":", "0", "0">>,
                <<"Z">>}}
DecimalTexts ==
    { <<"1", ".", "5">>, <<"2", ".", "0">>, <<"-", "0", ".", "2", "5">>, <<"7">>,
      <<" ", "7", "\n">>, <<".", "5">>, <<"1", ".">>, <<".">>, <<"-">>, <<"1", ".", "5", ".", "2">>,
      <<"0", "0", "7">>, <<"+", "3">> }
B64Texts == SeqsUpTo({"a", "Q", "="}, MaxB64) \cup {<<"a", "A", "=", "=", "\n">>, <<"a", "-", "A", "\n", "=", "=">>}

GoodPointWire == Dict([name \in {"x", "y"} |-> Str(<<"1", ".", "5">>)])
BadPointWire == Dict([name \in {"x", "y"} |-> IF name = "x" THEN Str(<<"1", ".", "5">>)
                                              ELSE Str(<<"b", "a", "d">>)])
PointWires ==
    {Dict(m) : m \in UNION {[K -> {Str(<<"1", ".", "5">>), Str(<<"b", "a", "d">>), None, IntV(2)}] :
                              K \in SUBSET {"x", "y", "z"}}}
EventWires ==
    {Dict(m) : m \in UNION {
        {f \in [K -> { Str(<<"1", "0", ":", "0", "0", ":", "0", "0">>),
                       Str(<<"1", "0", ":", "0", "0", ":", "0", "0", ".", "5">>),
                       GoodPointWire, BadPointWire, Str(<<"x">>), None,
                       List(<<IntV(1), IntV(2)>>), IntV(1) }] :
           /\ "when" \in K => f["when"].k = "str" /\ Len(f["when"].s) > 1
           /\ "at" \in K => f["at"] \in {GoodPointWire, BadPointWire, Str(<<"x">>), None}
           /\ "tags" \in K => f["tags"].k \in {"list", "int", "str"} /\ (f["tags"].k = "str" => Len(f["tags"].s) = 1)} :
        K \in SUBSET {"when", "at", "tags"}}}

\* wire values given to every descriptor
CommonWires ==
    { None, IntV(1), BoolV(TRUE), Str(<<>>), Str(<<"x">>), Str(<<"a", "b">>),
      Str(<<"t", "a", "g", "s">>), Str(<<"1", ".", "5">>),
      Str(<<"2", "0", "2", "0", "-", "0", "1", "-", "0", "1">>),
      List(<<>>), List(<<IntV(1), IntV(2)>>), List(<<Str(<<"x">>)>>),
      Dict(<<>>), GoodPointWire, Dict([name \in {"z"} |-> IntV(1)]) }

\* wire values given to one descriptor
OwnWires(datatype) ==
    CASE datatype = "int" -> {IntV(2), IntV(3)}
      [] datatype = "Decimal" -> {Str(s) : s \in DecimalTexts}
      [] datatype = "date" -> {Str(s) : s \in DateTexts}
      [] datatype = "time" -> {Str(s) : s \in TimeTexts}
      [] datatype = "datetime" -> {Str(s) : s \in DatetimeTexts}
      [] datatype = "binary" -> {Str(s) : s \in B64Texts}
      [] datatype = "IntArray" ->
           {List(s) : s \in SeqsUpTo({IntV(1), IntV(2), None, Str(<<"x">>)}, MaxLen)}
      [] datatype = "DateArray" ->
           {List(s) : s \in SeqsUpTo({ Str(<<"2", "0", "2", "0", "-", "0", "1", "-", "0", "1">>),
                                       Str(<<"2", "0", "2", "0", "-", "1", "3", "-", "0", "1">>),
                                       None, IntV(1) }, MaxLen)}
      [] datatype = "PointArray" ->
           {List(s) : s \in SeqsUpTo({ GoodPointWire, BadPointWire,
                                       Dict([name \in {"x"} |-> Str(<<"2", ".", "0">>)]),
                                       None, Str(<<"x">>) }, MaxLen)}
      [] datatype = "Point" -> PointWires
      [] datatype = "Event" -> EventWires

WireValues(datatype) == CommonWires \cup OwnWires(datatype)

(***************************************************************************)
(* The state machine: an application registers methods and calls the two   *)
(* generic functions; a call runs to completion and its result is kept     *)
(* until the caller takes it.  method is the method the generic function   *)
(* called for the call's first argument.                                   *)
(***************************************************************************)
\* the objects the application registers methods for, and its methods
RegObjects == {"Decimal", "IntArray", "Point"}
CustomToJson == {"custom1_tojson", "custom2_tojson"}
CustomFromJson == {"custom1_fromjson", "custom2_fromjson"}

Func(f) == [k |-> "func", f |-> f]

Init ==
    /\ tojson_by_object = BuiltinToJson
    /\ fromjson_by_object = BuiltinFromJson
    /\ pc = "idle"
    /\ op = "none"
    /\ dt = "none"
    /\ arg = None
    /\ method = "none"
    /\ ret = None
    /\ src = None

\* when_object, were a later method to replace the earlier one
when_object_Overwrite(by_object, o, f) ==
    [table |-> [x \in DOMAIN by_object \cup {o} |-> IF x = o THEN f ELSE by_object[x]],
     ret |-> Func(f)]

\* simplegeneric's when_object(o)(f): the new table and what the decorator
\* returns; a second method for an object that has one is a TypeError
when_object(by_object, o, f) ==
    IF o \notin DOMAIN by_object
    THEN [table |-> [x \in DOMAIN by_object \cup {o} |-> IF x = o THEN f ELSE by_object[x]],
          ret |-> Func(f)]
    ELSE IF by_object[o] = f
    THEN [table |-> by_object, ret |-> Func(f)]
    ELSE [table |-> by_object, ret |-> Err("TypeError")]

\* @tojson.when_object(o) def f
ToJsonWhenObject(o, f) ==
    /\ pc = "idle"
    /\ tojson_by_object' = when_object(tojson_by_object, o, f).table
    /\ ret' = when_object(tojson_by_object, o, f).ret
    /\ pc' = "returned"
    /\ op' = "tojson.when_object"
    /\ dt' = o
    /\ arg' = Func(f)
    /\ method' = "none"
    /\ src' = None
    /\ UNCHANGED fromjson_by_object

\* @fromjson.when_object(o) def f
FromJsonWhenObject(o, f) ==
    /\ pc = "idle"
    /\ fromjson_by_object' = when_object(fromjson_by_object, o, f).table
    /\ ret' = when_object(fromjson_by_object, o, f).ret
    /\ pc' = "returned"
    /\ op' = "fromjson.when_object"
    /\ dt' = o
    /\ arg' = Func(f)
    /\ method' = "none"
    /\ src' = None
    /\ UNCHANGED tojson_by_object

\* tojson(datatype, value)
ToJson(datatype, value) ==
    /\ pc = "idle"
    /\ method' = Dispatch(tojson_by_object, tojson_by_type, datatype)
    /\ ret' = tojson(tojson_by_object, datatype, value)
    /\ pc' = "returned"
    /\ op' = "tojson"
    /\ dt' = datatype
    /\ arg' = value
    /\ src' = None
    /\ UNCHANGED <<tojson_by_object, fromjson_by_object>>

\* fromjson(datatype, value)
FromJson(datatype, value) ==
    /\ pc = "idle"
    /\ method' = Dispatch(fromjson_by_object, fromjson_by_type, datatype)
    /\ ret' = fromjson(fromjson_by_object, datatype, value)
    /\ pc' = "returned"
    /\ op' = "fromjson"
    /\ dt' = datatype
    /\ arg' = value
    /\ src' = None
    /\ UNCHANGED <<tojson_by_object, fromjson_by_object>>

\* fromjson(datatype, w) of the w that tojson(datatype, v) just returned;
\* src keeps v
FromJsonOfToJson ==
    /\ pc = "returned"
    /\ op = "tojson"
    /\ ~IsErr(ret)
    /\ method' = Dispatch(fromjson_by_object, fromjson_by_type, dt)
    /\ ret' = fromjson(fromjson_by_object, dt, ret)
    /\ op' = "fromjson"
    /\ arg' = ret
    /\ src' = arg
    /\ UNCHANGED <<tojson_by_object, fromjson_by_object, pc, dt>>

\* the caller takes the result
Return ==
    /\ pc = "returned"
    /\ pc' = "idle"
    /\ op' = "none"
    /\ dt' = "none"
    /\ arg' = None
    /\ method' = "none"
    /\ ret' = None
    /\ src' = None
    /\ UNCHANGED <<tojson_by_object, fromjson_by_object>>

Next ==
    \/ \E o \in RegObjects, f \in CustomToJson : ToJsonWhenObject(o, f)
    \/ \E o \in RegObjects, f \in CustomFromJson : FromJsonWhenObject(o, f)
    \/ \E datatype \in Descriptors : \E value \in NativeValues(datatype) : ToJson(datatype, value)
    \/ \E datatype \in Descriptors : \E value \in WireValues(datatype) : FromJson(datatype, value)
    \/ FromJsonOfToJson
    \/ Return

Spec == Init /\ [][Next]_vars

(***************************************************************************)
(* Properties                                                              *)
(***************************************************************************)
Returned(o) == pc = "returned" /\ op = o

\* only the methods registered by the module itself
NoCustom == tojson_by_object = BuiltinToJson /\ fromjson_by_object = BuiltinFromJson

\* C1: round trip: with the module's own converters, fromjson(d, tojson(d, v))
\* is a value equal to v, for every descriptor d and well-formed native v.
C1_RoundTrip ==
    (Returned("fromjson") /\ src # None /\ NoCustom) => ret = src

\* the same, for the values whose times have no microseconds
HasMicroseconds(v) ==
    \/ v.k \in {"time", "datetime"} /\ v.us # 0
    \/ v.k = "obj" /\ v.cls = "Event" /\ v.attrs["when"].us # 0
C1_RoundTripWholeSeconds ==
    (Returned("fromjson") /\ src # None /\ NoCustom /\ ~HasMicroseconds(src)) => ret = src

\* C2: null short-circuit: fromjson(d, None) returns None for every
\* descriptor d, without an error.
C2_NullShortCircuit ==
    (Returned("fromjson") /\ arg = None) => ret = None

\* the rule the stated order of precedence chooses for a descriptor
PrecedenceRule(by_object, datatype) ==
    IF datatype \in DOMAIN by_object THEN "registered"
    ELSE IF datatype \in ArrayTypes THEN "array"
    ELSE IF iscomplex(datatype) THEN "complex"
    ELSE "passthrough"

\* C3: dispatch precedence: tojson and fromjson both use the method
\* registered for the descriptor's own identity when there is one (datetime
\* has its own and never uses date's; one registered for an array or a
\* complex descriptor wins over the structural rules); otherwise an array
\* is converted element by element with the element descriptor's dispatch;
\* otherwise a complex value attribute by attribute (a null wire value
\* decodes to None); otherwise the value is returned unchanged.
C3_DispatchPrecedence ==
    /\ Returned("tojson") =>
         LET rule == PrecedenceRule(tojson_by_object, dt)
         IN /\ rule = "registered" =>
                 /\ method = tojson_by_object[dt]
                 /\ ret = CallToJson(tojson_by_object[dt], tojson_by_object, dt, arg)
            /\ rule = "array" =>
                 /\ method = "array_tojson"
                 /\ ~IsErr(ret) =>
                      ret = List([n \in 1..Len(arg.items) |->
                                    tojson(tojson_by_object, ArrayElem(dt), arg.items[n])])
            /\ rule = "complex" =>
                 /\ method = "tojson_func"
                 /\ ~IsErr(ret) =>
                      /\ ret.k = "dict"
                      /\ \A n \in 1..Len(list_attributes(dt)) :
                           LET a == list_attributes(dt)[n]
                           IN ret.m[a.name] = tojson(tojson_by_object, a.datatype, arg.attrs[a.name])
            /\ rule = "passthrough" => method = "tojson_func" /\ ret = arg
            /\ dt = "datetime" => method # "date_tojson"
    /\ Returned("fromjson") =>
         LET rule == PrecedenceRule(fromjson_by_object, dt)
         IN /\ rule = "registered" =>
                 /\ method = fromjson_by_object[dt]
                 /\ ret = CallFromJson(fromjson_by_object[dt], fromjson_by_object, dt, arg)
            /\ rule = "array" =>
                 /\ method = "array_fromjson"
                 /\ (arg.k = "list" /\ ~IsErr(ret)) =>
                      ret = List([n \in 1..Len(arg.items) |->
                                    fromjson(fromjson_by_object, ArrayElem(dt), arg.items[n])])
            /\ rule = "complex" =>
                 /\ method = "fromjson_func"
                 /\ arg = None => ret = None
                 /\ (arg.k = "dict" /\ ~IsErr(ret)) =>
                      /\ ret.k = "obj"
                      /\ \A n \in 1..Len(list_attributes(dt)) :
                           LET a == list_attributes(dt)[n]
                           IN a.name \in DOMAIN arg.m =>
                                ret.attrs[a.name] =
                                  fromjson(fromjson_by_object, a.datatype, arg.m[a.name])
            /\ rule = "passthrough" => method = "fromjson_func" /\ ret = arg
            /\ dt = "datetime" => method # "date_fromjson"

\* C3 witness: a call for an array descriptor and one for a complex
\* descriptor took the registered method, not the structural rule
C3_Witness ==
    /\ Returned("tojson")
    /\ dt = "IntArray"
    /\ arg = List(<<IntV(1), IntV(2)>>)
    /\ method = "custom1_tojson"
    /\ ret = Custom("custom1_tojson", arg)
    /\ "Point" \in DOMAIN fromjson_by_object

\* C4 as stated: registering a method for an object that already has one
\* succeeds and replaces the entry.
C4_RegisterOverwrites ==
    /\ Returned("tojson.when_object") => ~IsErr(ret) /\ tojson_by_object[dt] = arg.f
    /\ Returned("fromjson.when_object") => ~IsErr(ret) /\ fromjson_by_object[dt] = arg.f

\* one registration step on a table: a new entry for an object without one,
\* nothing but a TypeError for an object that has another method
RegisterStep(before, after, o, f, result) ==
    /\ o \notin DOMAIN before =>
         /\ ~IsErr(result)
         /\ DOMAIN after = DOMAIN before \cup {o}
         /\ after[o] = f
    /\ (o \in DOMAIN before /\ before[o] # f) => IsErr(result) /\ after = before
    /\ (o \in DOMAIN before /\ before[o] = f) => ~IsErr(result) /\ after = before
    /\ \A x \in DOMAIN before : x \in DOMAIN after /\ after[x] = before[x]

\* C4, amended: registering a method for an object without an entry adds the
\* entry; for an object that already has another method (a scalar type with
\* a built-in converter, say) it fails with a TypeError and changes nothing;
\* so no entry ever changes, every call for X uses the first method
\* registered for X, and the entries of other objects and of the other
\* generic function are unaffected.
C4_FirstRegistrationWins ==
    [][ /\ op' = "tojson.when_object" =>
             /\ RegisterStep(tojson_by_object, tojson_by_object', dt', arg'.f, ret')
             /\ fromjson_by_object' = fromjson_by_object
        /\ op' = "fromjson.when_object" =>
             /\ RegisterStep(fromjson_by_object, fromjson_by_object', dt', arg'.f, ret')
             /\ tojson_by_object' = tojson_by_object
        /\ \A x \in DOMAIN tojson_by_object :
             x \in DOMAIN tojson_by_object' /\ tojson_by_object'[x] = tojson_by_object[x]
        /\ \A x \in DOMAIN fromjson_by_object :
             x \in DOMAIN fromjson_by_object' /\ fromjson_by_object'[x] = fromjson_by_object[x]
        /\ (op' = "tojson" /\ dt' \in DOMAIN tojson_by_object) =>
             /\ method' = tojson_by_object[dt']
             /\ ret' = CallToJson(tojson_by_object[dt'], tojson_by_object, dt', arg')
        /\ (op' = "fromjson" /\ dt' \in DOMAIN fromjson_by_object) =>
             /\ method' = fromjson_by_object[dt']
             /\ ret' = CallFromJson(fromjson_by_object[dt'], fromjson_by_object, dt', arg')
      ]_vars

\* C4 witness: a second method for an object that has one was refused, after
\* the application had registered a method of its own
C4_Witness ==
    /\ Returned("tojson.when_object")
    /\ dt = "Point"
    /\ arg = Func("custom2_tojson")
    /\ IsErr(ret)
    /\ tojson_by_object["Point"] = "custom1_tojson"

\* the structural rule decides the call: no method is registered for dt
Unregistered(by_object) == dt \notin DOMAIN by_object

\* C5: missing-field decode: fromjson of a complex descriptor and a mapping
\* sets exactly the attributes whose name is a key of the mapping, each to
\* the decoded value of its key; an attribute without a key is never set, a
\* key that names no attribute is ignored, and the decode succeeds unless
\* the decode of a value fails.
C5_MissingFieldDecode ==
    (Returned("fromjson") /\ iscomplex(dt) /\ Unregistered(fromjson_by_object) /\ arg.k = "dict") =>
        LET attrs == list_attributes(dt)
            AttrType(name) == attrs[CHOOSE n \in 1..Len(attrs) : attrs[n].name = name].datatype
            keys == AttrNames(dt) \cap DOMAIN arg.m
            Decoded(name) == fromjson(fromjson_by_object, AttrType(name), arg.m[name])
        IN IF \E name \in keys : IsErr(Decoded(name))
           THEN IsErr(ret)
           ELSE /\ ret.k = "obj"
                /\ ret.cls = dt
                /\ DOMAIN ret.attrs = keys
                /\ \A name \in keys : ret.attrs[name] = Decoded(name)

\* C5 witness: a Point decoded from a mapping without y and with a key z
C5_Witness ==
    /\ Returned("fromjson")
    /\ dt = "Point"
    /\ arg.k = "dict"
    /\ DOMAIN arg.m = {"x", "z"}
    /\ ret = Obj("Point", [name \in {"x"} |-> DecimalV(FALSE, <<1, 5>>, -1)])

Point15x20 ==
    Obj("Point", [name \in {"x", "y"} |->
                    IF name = "x" THEN DecimalV(FALSE, <<1, 5>>, -1)
                    ELSE DecimalV(FALSE, <<2, 0>>, -1)])
Point15x20Wire ==
    Dict([name \in {"x", "y"} |->
            IF name = "x" THEN Str(<<"1", ".", "5">>) ELSE Str(<<"2", ".", "0">>)])

\* C6: complex encode: tojson of a complex descriptor returns a mapping whose
\* keys are exactly the attribute names, each with tojson of the attribute's
\* descriptor and value; Point(x=1.5, y=2.0) encodes to {"x": "1.5",
\* "y": "2.0"}, which decodes to a Point with x=1.5 and y=2.0.
C6_ComplexEncode ==
    /\ (Returned("tojson") /\ iscomplex(dt) /\ Unregistered(tojson_by_object)) =>
         /\ ret.k = "dict"
         /\ DOMAIN ret.m = AttrNames(dt)
         /\ \A n \in 1..Len(list_attributes(dt)) :
              LET a == list_attributes(dt)[n]
              IN ret.m[a.name] = tojson(tojson_by_object, a.datatype, arg.attrs[a.name])
    /\ (Returned("tojson") /\ dt = "Point" /\ Unregistered(tojson_by_object) /\ arg = Point15x20) =>
         ret = Point15x20Wire
    /\ (Returned("fromjson") /\ dt = "Point" /\ Unregistered(fromjson_by_object)
          /\ arg = Point15x20Wire) =>
         ret = Point15x20

\* C6 witness: the Point of the example, encoded and decoded again
C6_Witness ==
    /\ Returned("fromjson")
    /\ dt = "Point"
    /\ src = Point15x20
    /\ arg = Point15x20Wire
    /\ ret = Point15x20

\* C7: array order and length: tojson and fromjson of an array descriptor and
\* a sequence return a sequence of the same length whose i-th element is the
\* conversion of the i-th element with the element descriptor; [1, 2, 3] as
\* an array of integers encodes to [1, 2, 3] and decodes to [1, 2, 3].
C7_ArrayOrderLength ==
    /\ (Returned("tojson") /\ dt \in ArrayTypes /\ Unregistered(tojson_by_object)) =>
         /\ ret.k = "list"
         /\ Len(ret.items) = Len(arg.items)
         /\ \A n \in 1..Len(arg.items) :
              ret.items[n] = tojson(tojson_by_object, ArrayElem(dt), arg.items[n])
    /\ (Returned("fromjson") /\ dt \in ArrayTypes /\ Unregistered(fromjson_by_object)
          /\ arg.k = "list"
          /\ \A n \in 1..Len(arg.items) :
               ~IsErr(fromjson(fromjson_by_object, ArrayElem(dt), arg.items[n]))) =>
         /\ ret.k = "list"
         /\ Len(ret.items) = Len(arg.items)
         /\ \A n \in 1..Len(arg.items) :
              ret.items[n] = fromjson(fromjson_by_object, ArrayElem(dt), arg.items[n])
    /\ (pc = "returned" /\ op \in {"tojson", "fromjson"} /\ dt = "IntArray"
          /\ (op = "tojson" => Unregistered(tojson_by_object))
          /\ (op = "fromjson" => Unregistered(fromjson_by_object))
          /\ arg = List(<<IntV(1), IntV(2), IntV(3)>>)) =>
         ret = List(<<IntV(1), IntV(2), IntV(3)>>)

\* C7 witness: [1, 2, 3] encoded and decoded again, and a sequence with a
\* null in the middle decoded
C7_Witness ==
    \/ /\ Returned("fromjson")
       /\ dt = "IntArray"
       /\ src = List(<<IntV(1), IntV(2), IntV(3)>>)
       /\ ret = src
    \/ /\ Returned("fromjson")
       /\ dt = "IntArray"
       /\ arg = List(<<IntV(1), None, IntV(2)>>)
       /\ ret = arg

DateTypes == {"date", "time", "datetime"}

\* the string is exactly YYYY-MM-DD, HH:MM:SS or YYYY-MM-DDTHH:MM:SS
ExactShape(datatype, s) ==
    LET shape == CASE datatype = "date" -> <<"9", "9", "9", "9", "-", "9", "9", "-", "9", "9">>
                   [] datatype = "time" -> <<"9", "9", ":", "9", "9", ":", "9", "9">>
                   [] datatype = "datetime" ->
                        <<"9", "9", "9", "9", "-", "9", "9", "-", "9", "9", "T",
                          "9", "9", ":", "9", "9", ":", "9", "9">>
    IN /\ Len(s) = Len(shape)
       /\ \A n \in 1..Len(shape) :
            IF shape[n] = "9" THEN s[n] \in DigitChars ELSE s[n] = shape[n]

\* C8 as stated: fromjson of the date, time and datetime descriptors
\* succeeds only for a string in the exact fixed format.
C8_ExactFormatOnly ==
    (Returned("fromjson") /\ dt \in DateTypes /\ arg.k = "str" /\ ~IsErr(ret)) =>
        ExactShape(dt, arg.s)

\* the pieces of a string between the characters of seps, and those
\* characters, in order
RECURSIVE Pieces(_, _)
Pieces(s, seps) ==
    IF \A n \in 1..Len(s) : s[n] \notin seps THEN <<s>>
    ELSE LET first == CHOOSE n \in 1..Len(s) :
                        s[n] \in seps /\ \A j \in 1..(n - 1) : s[j] \notin seps
         IN <<SubSeq(s, 1, first - 1)>> \o Pieces(SubSeq(s, first + 1, Len(s)), seps)
RECURSIVE Separators(_, _)
Separators(s, seps) ==
    IF s = <<>> THEN <<>>
    ELSE (IF Head(s) \in seps THEN <<Head(s)>> ELSE <<>>) \o Separators(Tail(s), seps)

\* a field written with one or two digits, or exactly four for a year; a day
\* may also be a space and a digit
OneOrTwoDigits(f) == Len(f) \in {1, 2} /\ AllDigits(f)
FieldValue(f) == IF Len(f) = 2 /\ f[1] = " " THEN DigitVal(f[2]) ELSE StrNat(f)
YearOK(f) == Len(f) = 4 /\ AllDigits(f) /\ StrNat(f) >= 1
MonthOK(f) == OneOrTwoDigits(f) /\ StrNat(f) \in 1..12
DayOK(f) ==
    \/ OneOrTwoDigits(f) /\ StrNat(f) \in 1..31
    \/ Len(f) = 2 /\ f[1] = " " /\ f[2] \in D19
HourOK(f) == OneOrTwoDigits(f) /\ StrNat(f) \in 0..23
MinuteOK(f) == OneOrTwoDigits(f) /\ StrNat(f) \in 0..59

\* the date, the time or the datetime a string denotes when it has the
\* fields in the fixed order between the fixed separators (T in either
\* case) and they make a valid value; None when it does not
Denoted(datatype, s) ==
    LET seps == {"-", ":", "T", "t"}
        p == Pieces(s, seps)
        q == [n \in 1..Len(Separators(s, seps)) |->
                IF Separators(s, seps)[n] = "t" THEN "T" ELSE Separators(s, seps)[n]]
        DateOK(y, mo, dd) ==
            /\ YearOK(y) /\ MonthOK(mo) /\ DayOK(dd)
            /\ FieldValue(dd) <= DaysInMonth(StrNat(y), StrNat(mo))
        TimeOK(h, mi, sec) == HourOK(h) /\ MinuteOK(mi) /\ MinuteOK(sec)
    IN CASE datatype = "date" ->
              IF q = <<"-", "-">> /\ DateOK(p[1], p[2], p[3])
              THEN DateV(StrNat(p[1]), StrNat(p[2]), FieldValue(p[3]))
              ELSE None
         [] datatype = "time" ->
              IF q = <<":", ":">> /\ TimeOK(p[1], p[2], p[3])
              THEN TimeV(StrNat(p[1]), StrNat(p[2]), StrNat(p[3]), 0)
              ELSE None
         [] datatype = "datetime" ->
              IF q = <<"-", "-", "T", ":", ":">> /\ DateOK(p[1], p[2], p[3])
                   /\ TimeOK(p[4], p[5], p[6])
              THEN DatetimeV(StrNat(p[1]), StrNat(p[2]), FieldValue(p[3]),
                             StrNat(p[4]), StrNat(p[5]), StrNat(p[6]), 0)
              ELSE None

TextOf2020x13x01 == <<"2", "0", "2", "0", "-", "1", "3", "-", "0", "1">>
TextOf10x00x00 == <<"1", "0", ":", "0", "0", ":", "0", "0">>
TextOfMicroseconds == <<".", "0", "0", "0", "1", "2", "3">>
TextOfZone == <<"+", "0", "2", ":", "0", "0">>

\* C8, amended: fromjson of the date, time and datetime descriptors succeeds
\* exactly for the strings that have the fields of the format in its order
\* between its separators (the T of a datetime in either case), with a year
\* of four digits and every other field of one or two digits (a day also as
\* a space and a digit), and that denote a valid value, which it returns;
\* for every other string it fails with an error and truncates nothing:
\* "2020-13-01" fails as a date, and a datetime followed by a time zone or
\* by fractional seconds fails.
C8_FormatStrictness ==
    (Returned("fromjson") /\ dt \in DateTypes /\ arg.k = "str") =>
        /\ IF Denoted(dt, arg.s) = None THEN ret = Err("ValueError")
           ELSE ret = Denoted(dt, arg.s)
        /\ (dt = "date" /\ arg.s = TextOf2020x13x01) => IsErr(ret)
        /\ (dt = "datetime" /\ Len(arg.s) > 19 /\ SubSeq(arg.s, 20, Len(arg.s)) = TextOfZone)
             => IsErr(ret)
        /\ (dt = "datetime" /\ Len(arg.s) > 19 /\ SubSeq(arg.s, 20, Len(arg.s)) = TextOfMicroseconds)
             => IsErr(ret)

\* C8 witness: a datetime written without padding and with a small t is
\* decoded, and one followed by a time zone is refused
C8_Witness ==
    /\ Returned("fromjson")
    /\ dt = "datetime"
    /\ arg.k = "str"
    /\ \/ /\ arg.s = <<"2", "0", "2", "0", "-", "1", "-", "5", "t", "1", ":", "2", ":", "3">>
          /\ ret = DatetimeV(2020, 1, 5, 1, 2, 3, 0)
       \/ /\ arg.s = <<"2", "0", "2", "0", "-", "0", "1", "-", "0", "1", "T">> \o TextOf10x00x00 \o TextOfZone
          /\ ret = Err("ValueError")

\* C9: unexpected shape: fromjson fails for an array descriptor and a wire
\* value that is not null and not a sequence, and for a complex descriptor
\* and a wire value that is not null and not a mapping.
C9_UnexpectedShape ==
    /\ (Returned("fromjson") /\ dt \in ArrayTypes /\ Unregistered(fromjson_by_object)
          /\ arg.k \in {"str", "int", "bool", "dict"}) => IsErr(ret)
    /\ (Returned("fromjson") /\ iscomplex(dt) /\ Unregistered(fromjson_by_object)
          /\ arg.k \in {"str", "int", "bool", "list"}) => IsErr(ret)

\* the same, for the wire values that are numbers or booleans
C9_NumbersAndBooleansFail ==
    (Returned("fromjson") /\ (dt \in ArrayTypes \/ iscomplex(dt))
       /\ Unregistered(fromjson_by_object) /\ arg.k \in {"int", "bool"}) => IsErr(ret)

\* C10: no partial results: when the decode of an element of an array or of
\* an attribute value of a complex value fails, fromjson of the whole value
\* fails with that error (of the first that fails), whatever the depth; it
\* returns no shortened sequence and no partly set instance.
C10_NoPartialResults ==
    /\ (Returned("fromjson") /\ dt \in ArrayTypes /\ Unregistered(fromjson_by_object)
          /\ arg.k = "list") =>
         LET rs == [n \in 1..Len(arg.items) |->
                      fromjson(fromjson_by_object, ArrayElem(dt), arg.items[n])]
         IN HasErr(rs) => ret = FirstErr(rs)
    /\ (Returned("fromjson") /\ iscomplex(dt) /\ Unregistered(fromjson_by_object)
          /\ arg.k = "dict") =>
         LET attrs == list_attributes(dt)
             rs == [n \in 1..Len(attrs) |->
                      IF attrs[n].name \in DOMAIN arg.m
                      THEN fromjson(fromjson_by_object, attrs[n].datatype, arg.m[attrs[n].name])
                      ELSE None]
         IN HasErr(rs) => ret = FirstErr(rs)

\* C10 witness: an Event whose Point has a y that is no decimal, and a
\* sequence of Points with such a Point after a good one
C10_Witness ==
    /\ Returned("fromjson")
    /\ ret = Err("InvalidOperation")
    /\ \/ /\ dt = "Event"
          /\ arg.k = "dict"
          /\ DOMAIN arg.m = {"when", "at", "tags"}
          /\ arg.m["when"] = Str(TextOf10x00x00)
          /\ arg.m["at"] = BadPointWire
       \/ /\ dt = "PointArray"
          /\ arg = List(<<GoodPointWire, BadPointWire>>)

====
